---- MODULE Spec2Model ----
(***************************************************************************)
(* Model of the batch image filter of src/main.go: main dispatches on the  *)
(* -task flag to processImagesWithWaitGroup (one worker goroutine running  *)
(* applyFilters over the whole directory, unbuffered channel) or to        *)
(* processImagesWithChannel (one goroutine per directory entry, channel    *)
(* buffered to len(fileList)).  In both a supervisor goroutine does        *)
(* wg.Wait(); close(ch) and the calling goroutine ranges over the channel. *)
(* The imaging library and the file system are the environment: whether a  *)
(* directory is readable and whether imaging.Open / imaging.Save of an     *)
(* entry succeed are inputs fixed in Init.                                 *)
(***************************************************************************)
EXTENDS Naturals, Integers, Sequences, FiniteSets

\* Largest number of entries of the source directory.
MaxFiles == 2

\* File names: name n stands for the n-th name in lexical order.
Names == 1..MaxFiles

Tasks == {"waitgrp", "channel"}
Filters == {"grayscale", "blur", "sepia"}
Outcomes == {"ok", "openErr", "saveErr"}

\* One os.FileInfo of the listing, with what imaging.Open / imaging.Save
\* will answer for it.
Entries == [name : Names, isDir : BOOLEAN, outcome : Outcomes]

\* ioutil.ReadDir returns the entries sorted by file name, names unique.
IsSorted(l) == \A i \in 1..Len(l), j \in 1..Len(l) : i < j => l[i].name < l[j].name

\* The listings of at most MaxFiles entries; a directory entry has no image
\* outcome of its own (imaging.Open on it would fail).
FileLists ==
    {l \in UNION {[1..n -> Entries] : n \in 0..MaxFiles} :
        /\ IsSorted(l)
        /\ \A i \in 1..Len(l) : l[i].isDir => l[i].outcome = "openErr"}

VARIABLES
    task,           \* -task flag
    filter,         \* -filter flag
    readable,       \* does ioutil.ReadDir(srcPath) succeed
    fileList,       \* what ioutil.ReadDir(srcPath) returns
    mainPc,         \* position of the calling goroutine
    chCap,          \* cap(ch)
    chBuf,          \* buffered elements of ch
    chClosed,       \* ch has been closed
    wg,             \* sync.WaitGroup counter
    supPc,          \* position of the goroutine wg.Wait(); close(ch)
    aPc,            \* position of the goroutine running applyFilters
    aIdx,           \* index of applyFilters' range loop (1-based)
    bPc,            \* position of each goroutine of processImagesWithChannel
    bI,             \* loop variable i of processImagesWithChannel (1-based)
    attempts,       \* per entry: times the filter switch was entered
    writes,         \* per entry: successful imaging.Save calls
    itemErrors,     \* per entry: "Error applying ... filter" lines
    invalidReports, \* "Invalid filter" lines
    enumErrors,     \* "Error reading directory" lines
    sentCnt,        \* per entry: completed sends of its file name
    dst,            \* destination directory: name -> content
    received,       \* file names the range loop has received
    printed,        \* "Finished processing" lines
    closeCount,     \* completed close(ch) calls
    panicked,       \* the runtime has panicked (send on / close of closed channel)
    run,            \* which invocation of the program this is (1 or 2)
    dstFirst        \* the destination directory as the first invocation left it

vars == <<task, filter, readable, fileList, mainPc, chCap, chBuf, chClosed, wg,
          supPc, aPc, aIdx, bPc, bI, attempts, writes, itemErrors,
          invalidReports, enumErrors, sentCnt, dst, received, printed,
          closeCount, panicked, run, dstFirst>>

runVars == <<run, dstFirst>>
inputs == <<task, filter, readable, fileList>>
chan == <<chCap, chBuf, chClosed, closeCount>>
itemVars == <<attempts, writes, itemErrors, invalidReports, dst>>
collector == <<received, printed>>

Idx == 1..Len(fileList)

Init ==
    /\ task \in Tasks
    /\ filter \in Filters
    /\ readable \in BOOLEAN
    /\ fileList \in FileLists
    /\ (~readable => fileList = <<>>)
    /\ mainPc = "main"
    /\ chCap = 0
    /\ chBuf = <<>>
    /\ chClosed = FALSE
    /\ wg = 0
    /\ supPc = "idle"
    /\ aPc = "idle"
    /\ aIdx = 0
    /\ bPc = [i \in Idx |-> "idle"]
    /\ bI = 0
    /\ attempts = [i \in Idx |-> 0]
    /\ writes = [i \in Idx |-> 0]
    /\ itemErrors = [i \in Idx |-> 0]
    /\ invalidReports = 0
    /\ enumErrors = 0
    /\ sentCnt = [i \in Idx |-> 0]
    /\ dst = [n \in Names |-> "none"]
    /\ received = <<>>
    /\ printed = <<>>
    /\ closeCount = 0
    /\ panicked = FALSE
    /\ run = 1
    /\ dstFirst = [n \in Names |-> "none"]

----
\* Channel and WaitGroup primitives

\* ch <- v: panics on a closed channel; otherwise hands v to the receiver
\* parked in the range loop, or buffers it when there is room; otherwise the
\* sender stays blocked (the action is not enabled).
ChanSend(v) ==
    \/ /\ chClosed
       /\ panicked' = TRUE
       /\ UNCHANGED <<chBuf, received, mainPc>>
    \/ /\ ~chClosed
       /\ Len(chBuf) < chCap
       /\ chBuf' = Append(chBuf, v)
       /\ UNCHANGED <<panicked, received, mainPc>>
    \/ /\ ~chClosed
       /\ mainPc = "range"
       /\ chBuf = <<>>
       /\ received' = Append(received, v)
       /\ mainPc' = "print"
       /\ UNCHANGED <<panicked, chBuf>>

\* wg.Done()
WgDone == wg' = wg - 1

\* wg.Wait() that returns without waiting for the counter.
WgWaitReturns_NoWait == TRUE

\* wg.Wait() returns
WgWaitReturns == wg = 0

\* A buffered channel, large enough for a whole listing, in
\* processImagesWithWaitGroup.
CapWaitGroup_Buffered == MaxFiles

\* make(chan string) of processImagesWithWaitGroup
CapWaitGroup == 0

\* A capacity one short of the listing.
CapChannel_OneShort == Len(fileList) - 1

\* make(chan string, len(fileList)) of processImagesWithChannel
CapChannel == Len(fileList)

----
\* The filter switch of one entry (the same text in applyFilters and in the
\* closure of processImagesWithChannel), in two steps: imaging.Open with the
\* dispatch on the filter name, then the transform and imaging.Save.

\* A switch without its default case: every name taken as a known filter.
KnownFilter_NoDefault == TRUE

KnownFilter == filter \in {"grayscale", "blur"}

\* SwitchOpen that rolls the batch back on an error, removing what has been
\* written to the destination so far.
SwitchOpen_RollbackOnError(i) ==
    /\ attempts' = [attempts EXCEPT ![i] = @ + 1]
    /\ invalidReports' = IF KnownFilter THEN invalidReports ELSE invalidReports + 1
    /\ itemErrors' = IF KnownFilter /\ fileList[i].outcome = "openErr"
                     THEN [itemErrors EXCEPT ![i] = @ + 1] ELSE itemErrors
    /\ dst' = IF KnownFilter /\ fileList[i].outcome # "openErr"
              THEN dst ELSE [n \in Names |-> "none"]
    /\ UNCHANGED writes

\* switch filter { ... }: an unknown name prints "Invalid filter"; otherwise
\* imaging.Open, whose error is printed with the file name.
SwitchOpen(i) ==
    /\ attempts' = [attempts EXCEPT ![i] = @ + 1]
    /\ invalidReports' = IF KnownFilter THEN invalidReports ELSE invalidReports + 1
    /\ itemErrors' = IF KnownFilter /\ fileList[i].outcome = "openErr"
                     THEN [itemErrors EXCEPT ![i] = @ + 1] ELSE itemErrors
    /\ UNCHANGED <<writes, dst>>

\* AfterOpen that goes to the send at once, the transform and the save left
\* out.
AfterOpen_SkipSave(i) == "send"

\* Position after SwitchOpen: on to the save, or straight to the send.
AfterOpen(i) ==
    IF KnownFilter /\ fileList[i].outcome # "openErr" THEN "save" ELSE "send"

\* TransformSave with the destination path built from the last entry of the
\* listing instead of the entry's own name.
TransformSave_LastName(i) ==
    /\ IF fileList[i].outcome = "saveErr"
       THEN /\ itemErrors' = [itemErrors EXCEPT ![i] = @ + 1]
            /\ UNCHANGED <<writes, dst>>
       ELSE /\ dst' = [dst EXCEPT ![fileList[Len(fileList)].name] = filter]
            /\ writes' = [writes EXCEPT ![i] = @ + 1]
            /\ UNCHANGED itemErrors
    /\ UNCHANGED <<attempts, invalidReports>>

\* TransformSave that filters the file already at the destination when there
\* is one, instead of the source file.
TransformSave_FromDestination(i) ==
    /\ IF fileList[i].outcome = "saveErr"
       THEN /\ itemErrors' = [itemErrors EXCEPT ![i] = @ + 1]
            /\ UNCHANGED <<writes, dst>>
       ELSE /\ dst' = [dst EXCEPT ![fileList[i].name] =
                           IF @ = "none" THEN filter ELSE "refiltered"]
            /\ writes' = [writes EXCEPT ![i] = @ + 1]
            /\ UNCHANGED itemErrors
    /\ UNCHANGED <<attempts, invalidReports>>

\* imaging.Grayscale / imaging.Blur then imaging.Save(destPath), destPath
\* being dst/<fileName>; a save error is printed with the file name.
TransformSave(i) ==
    /\ IF fileList[i].outcome = "saveErr"
       THEN /\ itemErrors' = [itemErrors EXCEPT ![i] = @ + 1]
            /\ UNCHANGED <<writes, dst>>
       ELSE /\ dst' = [dst EXCEPT ![fileList[i].name] = filter]
            /\ writes' = [writes EXCEPT ![i] = @ + 1]
            /\ UNCHANGED itemErrors
    /\ UNCHANGED <<attempts, invalidReports>>

----
\* main

\* switch *task: the flags are all given; "waitgrp" or "channel".
Main ==
    /\ ~panicked
    /\ mainPc = "main"
    /\ mainPc' = IF task = "waitgrp" THEN "A_start" ELSE "B_readdir"
    /\ UNCHANGED <<inputs, runVars, chan, wg, supPc, aPc, aIdx, bPc, bI, itemVars,
                   enumErrors, sentCnt, collector, panicked>>

----
\* processImagesWithWaitGroup and applyFilters

\* ch := make(chan string); wg.Add(1); go applyFilters(...)
A_Start ==
    /\ ~panicked
    /\ mainPc = "A_start"
    /\ chCap' = CapWaitGroup
    /\ wg' = wg + 1
    /\ aPc' = "readdir"
    /\ mainPc' = "spawnSup"
    /\ UNCHANGED <<inputs, runVars, chBuf, chClosed, closeCount, supPc, aIdx, bPc, bI,
                   itemVars, enumErrors, sentCnt, collector, panicked>>

\* A_ReadDir returning on the error without the deferred wg.Done().
A_ReadDir_NoDone ==
    /\ ~panicked
    /\ aPc = "readdir"
    /\ IF readable
       THEN /\ aIdx' = 1
            /\ aPc' = "loop"
            /\ UNCHANGED <<enumErrors, wg>>
       ELSE /\ enumErrors' = enumErrors + 1
            /\ aPc' = "done"
            /\ UNCHANGED <<aIdx, wg>>
    /\ UNCHANGED <<inputs, runVars, chan, mainPc, supPc, bPc, bI, itemVars, sentCnt,
                   collector, panicked>>

\* applyFilters: ioutil.ReadDir; on error print it and return (deferred
\* wg.Done), else enter the range loop.
A_ReadDir ==
    /\ ~panicked
    /\ aPc = "readdir"
    /\ IF readable
       THEN /\ aIdx' = 1
            /\ aPc' = "loop"
            /\ UNCHANGED <<enumErrors, wg>>
       ELSE /\ enumErrors' = enumErrors + 1
            /\ WgDone
            /\ aPc' = "done"
            /\ UNCHANGED aIdx
    /\ UNCHANGED <<inputs, runVars, chan, mainPc, supPc, bPc, bI, itemVars, sentCnt,
                   collector, panicked>>

\* A_Loop without the file.IsDir() test.
A_Loop_NoDirCheck ==
    /\ ~panicked
    /\ aPc = "loop"
    /\ IF aIdx > Len(fileList)
       THEN /\ WgDone
            /\ aPc' = "done"
            /\ UNCHANGED aIdx
       ELSE /\ aPc' = "filter"
            /\ UNCHANGED <<aIdx, wg>>
    /\ UNCHANGED <<inputs, runVars, chan, mainPc, supPc, bPc, bI, itemVars, enumErrors,
                   sentCnt, collector, panicked>>

\* A_Loop with the deferred wg.Done() forgotten on the normal return.
A_Loop_NoDone ==
    /\ ~panicked
    /\ aPc = "loop"
    /\ IF aIdx > Len(fileList)
       THEN /\ aPc' = "done"
            /\ UNCHANGED <<aIdx, wg>>
       ELSE IF fileList[aIdx].isDir
       THEN /\ aIdx' = aIdx + 1
            /\ UNCHANGED <<aPc, wg>>
       ELSE /\ aPc' = "filter"
            /\ UNCHANGED <<aIdx, wg>>
    /\ UNCHANGED <<inputs, runVars, chan, mainPc, supPc, bPc, bI, itemVars, enumErrors,
                   sentCnt, collector, panicked>>

\* applyFilters: head of one iteration of for _, file := range fileList;
\* directories are skipped; past the last entry the function returns
\* (deferred wg.Done).
A_Loop ==
    /\ ~panicked
    /\ aPc = "loop"
    /\ IF aIdx > Len(fileList)
       THEN /\ WgDone
            /\ aPc' = "done"
            /\ UNCHANGED aIdx
       ELSE IF fileList[aIdx].isDir
       THEN /\ aIdx' = aIdx + 1
            /\ UNCHANGED <<aPc, wg>>
       ELSE /\ aPc' = "filter"
            /\ UNCHANGED <<aIdx, wg>>
    /\ UNCHANGED <<inputs, runVars, chan, mainPc, supPc, bPc, bI, itemVars, enumErrors,
                   sentCnt, collector, panicked>>

\* A_Filter doing `continue` on an error, skipping the send.
A_Filter_ContinueOnError ==
    /\ ~panicked
    /\ aPc = "filter"
    /\ SwitchOpen(aIdx)
    /\ IF AfterOpen(aIdx) = "send"
       THEN /\ aIdx' = aIdx + 1
            /\ aPc' = "loop"
       ELSE /\ aPc' = "save"
            /\ UNCHANGED aIdx
    /\ UNCHANGED <<inputs, runVars, chan, wg, mainPc, supPc, bPc, bI, enumErrors,
                   sentCnt, collector, panicked>>

\* applyFilters: the filter switch up to imaging.Open
A_Filter ==
    /\ ~panicked
    /\ aPc = "filter"
    /\ SwitchOpen(aIdx)
    /\ aPc' = AfterOpen(aIdx)
    /\ UNCHANGED <<inputs, runVars, chan, wg, mainPc, supPc, aIdx, bPc, bI, enumErrors,
                   sentCnt, collector, panicked>>

\* applyFilters: the transform and imaging.Save
A_Save ==
    /\ ~panicked
    /\ aPc = "save"
    /\ TransformSave(aIdx)
    /\ aPc' = "send"
    /\ UNCHANGED <<inputs, runVars, chan, wg, mainPc, supPc, aIdx, bPc, bI, enumErrors,
                   sentCnt, collector, panicked>>

\* A_Send going round the loop without moving to the next entry.
A_Send_NoAdvance ==
    /\ ~panicked
    /\ aPc = "send"
    /\ ChanSend(fileList[aIdx].name)
    /\ sentCnt' = [sentCnt EXCEPT ![aIdx] = @ + 1]
    /\ aPc' = "loop"
    /\ UNCHANGED <<inputs, runVars, chCap, chClosed, closeCount, wg, supPc, aIdx, bPc,
                   bI, itemVars, enumErrors, printed>>

\* applyFilters: ch <- fileName, then the next iteration
A_Send ==
    /\ ~panicked
    /\ aPc = "send"
    /\ ChanSend(fileList[aIdx].name)
    /\ sentCnt' = [sentCnt EXCEPT ![aIdx] = @ + 1]
    /\ aIdx' = aIdx + 1
    /\ aPc' = "loop"
    /\ UNCHANGED <<inputs, runVars, chCap, chClosed, closeCount, wg, supPc, bPc, bI,
                   itemVars, enumErrors, printed>>

----
\* processImagesWithChannel

\* B_ReadDir printing the error and going on without the return.
B_ReadDir_NoReturn ==
    /\ ~panicked
    /\ mainPc = "B_readdir"
    /\ enumErrors' = IF readable THEN enumErrors ELSE enumErrors + 1
    /\ chCap' = CapChannel
    /\ bI' = 1
    /\ mainPc' = "B_loop"
    /\ UNCHANGED <<inputs, runVars, chBuf, chClosed, closeCount, wg, supPc, aPc, aIdx,
                   bPc, itemVars, sentCnt, collector, panicked>>

\* ioutil.ReadDir; on error print it and return; else
\* ch := make(chan string, len(fileList)) and i := 0.
B_ReadDir ==
    /\ ~panicked
    /\ mainPc = "B_readdir"
    /\ IF readable
       THEN /\ chCap' = CapChannel
            /\ bI' = 1
            /\ mainPc' = "B_loop"
            /\ UNCHANGED enumErrors
       ELSE /\ enumErrors' = enumErrors + 1
            /\ mainPc' = "done"
            /\ UNCHANGED <<chCap, bI>>
    /\ UNCHANGED <<inputs, runVars, chBuf, chClosed, closeCount, wg, supPc, aPc, aIdx,
                   bPc, itemVars, sentCnt, collector, panicked>>

\* B_Spawn throttled to one closure at a time: the next one is started only
\* when the previous ones have returned.
B_Spawn_Throttled ==
    /\ ~panicked
    /\ mainPc = "B_loop"
    /\ bI <= Len(fileList)
    /\ wg = 0
    /\ wg' = wg + 1
    /\ bPc' = [bPc EXCEPT ![bI] = "start"]
    /\ bI' = bI + 1
    /\ UNCHANGED <<inputs, runVars, chan, mainPc, supPc, aPc, aIdx, itemVars,
                   enumErrors, sentCnt, collector, panicked>>

\* One iteration of for i := 0; i < len(fileList); i++: wg.Add(1); go func(i)
B_Spawn ==
    /\ ~panicked
    /\ mainPc = "B_loop"
    /\ bI <= Len(fileList)
    /\ wg' = wg + 1
    /\ bPc' = [bPc EXCEPT ![bI] = "start"]
    /\ bI' = bI + 1
    /\ UNCHANGED <<inputs, runVars, chan, mainPc, supPc, aPc, aIdx, itemVars,
                   enumErrors, sentCnt, collector, panicked>>

\* B_LoopEnd going straight to the range loop, the supervisor never started.
B_LoopEnd_NoSupervisor ==
    /\ ~panicked
    /\ mainPc = "B_loop"
    /\ bI > Len(fileList)
    /\ mainPc' = "range"
    /\ UNCHANGED <<inputs, runVars, chan, wg, supPc, aPc, aIdx, bPc, bI, itemVars,
                   enumErrors, sentCnt, collector, panicked>>

\* The loop of processImagesWithChannel ends.
B_LoopEnd ==
    /\ ~panicked
    /\ mainPc = "B_loop"
    /\ bI > Len(fileList)
    /\ mainPc' = "spawnSup"
    /\ UNCHANGED <<inputs, runVars, chan, wg, supPc, aPc, aIdx, bPc, bI, itemVars,
                   enumErrors, sentCnt, collector, panicked>>

\* B_Start without the file.IsDir() test.
B_Start_NoDirCheck(i) ==
    /\ ~panicked
    /\ bPc[i] = "start"
    /\ bPc' = [bPc EXCEPT ![i] = "filter"]
    /\ UNCHANGED <<inputs, runVars, chan, wg, mainPc, supPc, aPc, aIdx, bI, itemVars,
                   enumErrors, sentCnt, collector, panicked>>

\* Closure: file := fileList[index]; a directory returns (deferred wg.Done).
B_Start(i) ==
    /\ ~panicked
    /\ bPc[i] = "start"
    /\ IF fileList[i].isDir
       THEN /\ WgDone
            /\ bPc' = [bPc EXCEPT ![i] = "done"]
       ELSE /\ bPc' = [bPc EXCEPT ![i] = "filter"]
            /\ UNCHANGED wg
    /\ UNCHANGED <<inputs, runVars, chan, mainPc, supPc, aPc, aIdx, bI, itemVars,
                   enumErrors, sentCnt, collector, panicked>>

\* B_Filter returning on an error instead of falling through to the send.
B_Filter_ReturnOnError(i) ==
    /\ ~panicked
    /\ bPc[i] = "filter"
    /\ SwitchOpen(i)
    /\ bPc' = [bPc EXCEPT ![i] = IF AfterOpen(i) = "send" THEN "ret" ELSE "save"]
    /\ UNCHANGED <<inputs, runVars, chan, wg, mainPc, supPc, aPc, aIdx, bI, enumErrors,
                   sentCnt, collector, panicked>>

\* Closure: the filter switch up to imaging.Open
B_Filter(i) ==
    /\ ~panicked
    /\ bPc[i] = "filter"
    /\ SwitchOpen(i)
    /\ bPc' = [bPc EXCEPT ![i] = AfterOpen(i)]
    /\ UNCHANGED <<inputs, runVars, chan, wg, mainPc, supPc, aPc, aIdx, bI, enumErrors,
                   sentCnt, collector, panicked>>

\* Closure: the transform and imaging.Save
B_Save(i) ==
    /\ ~panicked
    /\ bPc[i] = "save"
    /\ TransformSave(i)
    /\ bPc' = [bPc EXCEPT ![i] = "send"]
    /\ UNCHANGED <<inputs, runVars, chan, wg, mainPc, supPc, aPc, aIdx, bI, enumErrors,
                   sentCnt, collector, panicked>>

\* B_Send that waits until the entries listed before it have been sent.
B_Send_InOrder(i) ==
    /\ ~panicked
    /\ bPc[i] = "send"
    /\ \A j \in 1..(i - 1) : fileList[j].isDir \/ sentCnt[j] > 0
    /\ ChanSend(fileList[i].name)
    /\ sentCnt' = [sentCnt EXCEPT ![i] = @ + 1]
    /\ bPc' = [bPc EXCEPT ![i] = "ret"]
    /\ UNCHANGED <<inputs, runVars, chCap, chClosed, closeCount, wg, supPc, aPc, aIdx,
                   bI, itemVars, enumErrors, printed>>

\* Closure: ch <- fileName
B_Send(i) ==
    /\ ~panicked
    /\ bPc[i] = "send"
    /\ ChanSend(fileList[i].name)
    /\ sentCnt' = [sentCnt EXCEPT ![i] = @ + 1]
    /\ bPc' = [bPc EXCEPT ![i] = "ret"]
    /\ UNCHANGED <<inputs, runVars, chCap, chClosed, closeCount, wg, supPc, aPc, aIdx,
                   bI, itemVars, enumErrors, printed>>

\* Closure: return, running the deferred wg.Done()
B_Return(i) ==
    /\ ~panicked
    /\ bPc[i] = "ret"
    /\ WgDone
    /\ bPc' = [bPc EXCEPT ![i] = "done"]
    /\ UNCHANGED <<inputs, runVars, chan, mainPc, supPc, aPc, aIdx, bI, itemVars,
                   enumErrors, sentCnt, collector, panicked>>

----
\* The supervisor goroutine and the collector loop (the same text in both
\* functions)

\* go func() { wg.Wait(); close(ch) }()
SpawnSup ==
    /\ ~panicked
    /\ mainPc = "spawnSup"
    /\ supPc' = "wait"
    /\ mainPc' = "range"
    /\ UNCHANGED <<inputs, runVars, chan, wg, aPc, aIdx, bPc, bI, itemVars, enumErrors,
                   sentCnt, collector, panicked>>

\* wg.Wait() returns once the counter is zero.
SupWait ==
    /\ ~panicked
    /\ supPc = "wait"
    /\ WgWaitReturns
    /\ supPc' = "close"
    /\ UNCHANGED <<inputs, runVars, chan, wg, mainPc, aPc, aIdx, bPc, bI, itemVars,
                   enumErrors, sentCnt, collector, panicked>>

\* close(ch); closing a closed channel panics.
SupClose ==
    /\ ~panicked
    /\ supPc = "close"
    /\ IF chClosed
       THEN /\ panicked' = TRUE
            /\ UNCHANGED <<chClosed, closeCount>>
       ELSE /\ chClosed' = TRUE
            /\ closeCount' = closeCount + 1
            /\ UNCHANGED panicked
    /\ supPc' = "done"
    /\ UNCHANGED <<inputs, runVars, chCap, chBuf, wg, mainPc, aPc, aIdx, bPc, bI,
                   itemVars, enumErrors, sentCnt, collector>>

\* for fileName := range ch: take a buffered element
Recv ==
    /\ ~panicked
    /\ mainPc = "range"
    /\ chBuf # <<>>
    /\ received' = Append(received, Head(chBuf))
    /\ chBuf' = Tail(chBuf)
    /\ mainPc' = "print"
    /\ UNCHANGED <<inputs, runVars, chCap, chClosed, closeCount, wg, supPc, aPc, aIdx,
                   bPc, bI, itemVars, enumErrors, sentCnt, printed, panicked>>

\* RecvClosed that ends the loop as soon as the channel is found empty,
\* closed or not.
RecvClosed_EmptyMeansDone ==
    /\ ~panicked
    /\ mainPc = "range"
    /\ chBuf = <<>>
    /\ mainPc' = "done"
    /\ UNCHANGED <<inputs, runVars, chan, wg, supPc, aPc, aIdx, bPc, bI, itemVars,
                   enumErrors, sentCnt, collector, panicked>>

\* for fileName := range ch: the channel is closed and drained, the loop and
\* the function end
RecvClosed ==
    /\ ~panicked
    /\ mainPc = "range"
    /\ chBuf = <<>>
    /\ chClosed
    /\ mainPc' = "done"
    /\ UNCHANGED <<inputs, runVars, chan, wg, supPc, aPc, aIdx, bPc, bI, itemVars,
                   enumErrors, sentCnt, collector, panicked>>

\* fmt.Printf("Finished processing: %s\n", fileName)
PrintFinished ==
    /\ ~panicked
    /\ mainPc = "print"
    /\ printed' = Append(printed, received[Len(received)])
    /\ mainPc' = "range"
    /\ UNCHANGED <<inputs, runVars, chan, wg, supPc, aPc, aIdx, bPc, bI, itemVars,
                   enumErrors, sentCnt, received, panicked>>

----
Worker(i) == B_Start(i) \/ B_Filter(i) \/ B_Save(i) \/ B_Send(i) \/ B_Return(i)

ApplyFilters == A_ReadDir \/ A_Loop \/ A_Filter \/ A_Save \/ A_Send

Supervisor == SupWait \/ SupClose

Caller ==
    \/ Main \/ A_Start \/ B_ReadDir \/ B_Spawn \/ B_LoopEnd \/ SpawnSup
    \/ Recv \/ RecvClosed \/ PrintFinished

Next == Caller \/ ApplyFilters \/ Supervisor \/ \E i \in Idx : Worker(i)

Spec == Init /\ [][Next]_vars

\* The Go scheduler runs every runnable goroutine eventually.
FairSpec ==
    /\ Spec
    /\ WF_vars(Caller)
    /\ WF_vars(ApplyFilters)
    /\ WF_vars(Supervisor)
    /\ \A i \in 1..MaxFiles : WF_vars(i \in Idx /\ Worker(i))

----
\* Vocabulary of the properties

\* Indices of the non-directory entries
NonDir == {i \in Idx : ~fileList[i].isDir}

RECURSIVE NamesFrom(_)
\* File names of the non-directory entries from index i on, in listing order
NamesFrom(i) ==
    IF i > Len(fileList) THEN <<>>
    ELSE IF fileList[i].isDir THEN NamesFrom(i + 1)
    ELSE <<fileList[i].name>> \o NamesFrom(i + 1)

EligibleNames == NamesFrom(1)

\* Occurrences of n in the sequence q
Count(q, n) == Cardinality({k \in 1..Len(q) : q[k] = n})

IsPrefix(p, q) == Len(p) <= Len(q) /\ \A k \in 1..Len(p) : p[k] = q[k]

\* The collector loop has ended.
CollectorDone == mainPc = "done"

----
\* C1: once the directory has been enumerated, under fair scheduling and
\* under both strategies the channel is eventually closed and the collector
\* loop eventually ends, whatever the outcomes of the entries.
C1_EventuallyClosedAndDone == readable ~> (chClosed /\ CollectorDone)

\* Both entries failed (one on open, one on save) and the run still ended.
C1_Witness ==
    /\ readable /\ chClosed /\ CollectorDone
    /\ Len(fileList) = 2
    /\ \E i, j \in NonDir : fileList[i].outcome = "openErr" /\ fileList[j].outcome = "saveErr"

\* C2: when the collector loop has ended, every non-directory file name has
\* been printed exactly once and nothing else has been printed.
C2_PrintedIsEligibleMultiset ==
    CollectorDone => \A n \in Names : Count(printed, n) = Count(EligibleNames, n)

\* Strategy B ended having printed two names in the reverse of listing order.
C2_Witness ==
    /\ CollectorDone /\ task = "channel"
    /\ Len(printed) = 2 /\ printed[1] > printed[2]

\* C3: no entry is ever put through the filter switch twice, and when the
\* collector loop has ended every non-directory entry has been through it
\* once.
C3_ProcessedExactlyOnce ==
    /\ \A i \in Idx : attempts[i] <= 1
    /\ CollectorDone => \A i \in NonDir : attempts[i] = 1

\* A run over two files that ended.
C3_Witness ==
    /\ CollectorDone /\ Cardinality(NonDir) = 2
    /\ \A i \in NonDir : attempts[i] = 1

\* C4: under Strategy A the names received and printed follow listing order:
\* always a prefix of the non-directory names, and all of them at the end.
C4_OrderIsEnumerationOrder ==
    task = "waitgrp" =>
        /\ IsPrefix(received, EligibleNames)
        /\ IsPrefix(printed, received)
        /\ CollectorDone => printed = EligibleNames

\* Strategy A ended having printed the two file names of the listing.
C4_Witness ==
    /\ task = "waitgrp" /\ CollectorDone
    /\ Len(printed) = 2 /\ printed = EligibleNames

\* C5: every non-directory entry has its name sent at most once, and exactly
\* once when the collector loop has ended, whatever its outcome and whatever
\* the filter name; directories are never sent.
C5_OneEventPerItem ==
    /\ \A i \in Idx : sentCnt[i] <= (IF fileList[i].isDir THEN 0 ELSE 1)
    /\ CollectorDone => \A i \in NonDir : sentCnt[i] = 1

\* The first entry failed to open and the second was still saved and sent.
C5_Witness ==
    /\ CollectorDone /\ KnownFilter /\ Len(fileList) = 2
    /\ fileList[1].outcome = "openErr" /\ ~fileList[1].isDir
    /\ fileList[2].outcome = "ok"
    /\ sentCnt[1] = 1 /\ sentCnt[2] = 1 /\ writes[2] = 1

----
\* Entries whose name has been sent
Sent == {i \in Idx : sentCnt[i] > 0}

\* Entries whose processing has been started
Started == {i \in Idx : attempts[i] > 0}

\* Worker goroutines spawned so far
WorkersSpawned ==
    (IF aPc = "idle" THEN 0 ELSE 1) + Cardinality({i \in Idx : bPc[i] # "idle"})

\* Every spawned worker has returned.
WorkersReturned == aPc \in {"idle", "done"} /\ \A i \in Idx : bPc[i] \in {"idle", "done"}

\* C6: the channel is closed at most once, only by the supervisor and only
\* with the wait counter at zero and every worker returned; nothing is ever
\* sent on or closed twice (no panic); and a run that made the channel has
\* closed it exactly once when the collector loop ends.
C6_SingleCloserAfterWait ==
    /\ ~panicked
    /\ closeCount <= 1
    /\ chClosed => closeCount = 1 /\ supPc = "done" /\ wg = 0 /\ WorkersReturned
    /\ CollectorDone /\ (readable \/ task = "waitgrp") => closeCount = 1

\* Strategy B closed the channel after two workers had sent.
C6_Witness ==
    /\ task = "channel" /\ chClosed /\ closeCount = 1
    /\ Cardinality(Sent) = 2 /\ wg = 0

\* C7: under Strategy B the capacity is the number of listed entries and a
\* worker about to send always finds room in the buffer.
C7_SendNeverBlocks ==
    task = "channel" /\ mainPc \notin {"main", "B_readdir"} /\ readable =>
        /\ chCap = Len(fileList)
        /\ \A i \in Idx : bPc[i] = "send" => Len(chBuf) < chCap /\ ~chClosed

\* A worker is about to send while the other's event is still buffered and
\* the collector has not even reached its loop.
C7_Witness ==
    /\ task = "channel" /\ mainPc = "spawnSup" /\ received = <<>>
    /\ Len(chBuf) = 1
    /\ \E i \in Idx : bPc[i] = "send"

\* C8: under Strategy A the channel is unbuffered: nothing is ever buffered,
\* a send completes only by handing the name to the collector, and the
\* entries started exceed the names received by at most one.
C8_BackpressureOneAhead ==
    task = "waitgrp" =>
        /\ chCap = 0 /\ chBuf = <<>>
        /\ Cardinality(Sent) = Len(received)
        /\ Cardinality(Started) <= Len(received) + 1

\* The worker waits to send the second name while the collector is still
\* printing the first.
C8_Witness ==
    /\ task = "waitgrp" /\ aPc = "send" /\ mainPc = "print"
    /\ Len(received) = 1 /\ Cardinality(Started) = 2

\* C9, as the spec states it: with an unreadable directory nothing is
\* printed as finished, the error is reported once, and no worker goroutine
\* is spawned, under either strategy.
C9_Original ==
    ~readable =>
        /\ received = <<>> /\ printed = <<>>
        /\ enumErrors <= 1
        /\ CollectorDone => enumErrors = 1
        /\ WorkersSpawned = 0

\* C9, amended: with an unreadable directory nothing is printed as finished
\* and the error is reported once; under Strategy B no goroutine at all is
\* spawned; under Strategy A the one worker is spawned and it is the worker
\* that reports the error and returns.
C9_UnreadableAborts ==
    ~readable =>
        /\ received = <<>> /\ printed = <<>> /\ chBuf = <<>>
        /\ enumErrors <= 1
        /\ CollectorDone => enumErrors = 1
        /\ task = "channel" => WorkersSpawned = 0 /\ supPc = "idle" /\ wg = 0
        /\ task = "waitgrp" =>
              /\ WorkersSpawned <= 1
              /\ enumErrors = (IF aPc = "done" THEN 1 ELSE 0)

\* Strategy A: the spawned worker has reported the unreadable directory.
C9_Witness ==
    /\ ~readable /\ task = "waitgrp" /\ ~chClosed
    /\ aPc = "done" /\ enumErrors = 1

\* C10: under Strategy A with an unreadable directory nothing is ever sent,
\* and under fair scheduling the worker returns, the counter reaches zero,
\* the supervisor closes the channel and the collector loop ends with
\* nothing printed.
C10_WorkerStillReturns ==
    /\ [](task = "waitgrp" /\ ~readable =>
              Sent = {} /\ chBuf = <<>> /\ received = <<>> /\ printed = <<>>)
    /\ (task = "waitgrp" /\ ~readable) ~>
          (aPc = "done" /\ wg = 0 /\ chClosed /\ CollectorDone /\ printed = <<>>)

\* Strategy A ended on an unreadable directory.
C10_Witness ==
    /\ task = "waitgrp" /\ ~readable /\ CollectorDone /\ chClosed
    /\ aPc = "done" /\ wg = 0 /\ enumErrors = 1 /\ printed = <<>>

\* The listing was read and holds no entry.
EmptyDir == readable /\ fileList = <<>>

\* C11: on an empty source directory nothing is sent, received or printed,
\* Strategy B spawns no worker and makes a channel of capacity 0, and under
\* fair scheduling the channel is closed and the collector loop ends, under
\* both strategies.
C11_EmptyDirTerminates ==
    /\ [](EmptyDir =>
            /\ chBuf = <<>> /\ received = <<>> /\ printed = <<>>
            /\ mainPc # "print"
            /\ task = "channel" => WorkersSpawned = 0 /\ chCap = 0)
    /\ EmptyDir ~> (chClosed /\ closeCount = 1 /\ CollectorDone /\ printed = <<>>)

\* Strategy B ended on an empty directory, its channel closed.
C11_Witness ==
    /\ EmptyDir /\ task = "channel" /\ CollectorDone /\ chClosed
    /\ chCap = 0 /\ supPc = "done" /\ printed = <<>>

\* The -filter flag names no filter of the switch.
InvalidFilter == filter \notin {"grayscale", "blur"}

\* C12: with an unrecognized filter name nothing is ever written to the
\* destination, every entry attempted has produced exactly one "Invalid
\* filter" line, and when the collector loop has ended there are as many
\* such lines, and as many "Finished processing" lines, as non-directory
\* entries.
C12_InvalidFilterStillNotifies ==
    InvalidFilter =>
        /\ \A n \in Names : dst[n] = "none"
        /\ \A i \in Idx : writes[i] = 0
        /\ invalidReports = Cardinality(Started)
        /\ CollectorDone =>
              /\ invalidReports = Cardinality(NonDir)
              /\ Len(printed) = Cardinality(NonDir)

\* A run with filter "sepia" over two files ended.
C12_Witness ==
    /\ InvalidFilter /\ CollectorDone /\ Cardinality(NonDir) = 2
    /\ invalidReports = 2 /\ Len(printed) = 2

\* Indices of the directory entries
Dirs == {i \in Idx : fileList[i].isDir}

\* Nothing has been done for entry i: no filter switch, no write, no error
\* line, no send, and its name is nowhere in the channel or the output.
Untouched(i) ==
    /\ attempts[i] = 0 /\ writes[i] = 0 /\ itemErrors[i] = 0 /\ sentCnt[i] = 0
    /\ dst[fileList[i].name] = "none"
    /\ Count(chBuf, fileList[i].name) = 0
    /\ Count(received, fileList[i].name) = 0
    /\ Count(printed, fileList[i].name) = 0

\* C13, as the spec states it: no worker is ever spawned for a directory
\* entry, and nothing is processed or sent for it.
C13_Original ==
    \A i \in Dirs : Untouched(i) /\ bPc[i] = "idle"

\* C13, amended: nothing is ever processed or sent for a directory entry;
\* the worker of Strategy A skips it at the head of its loop, and the
\* goroutine that Strategy B does spawn for it only tests IsDir and returns.
C13_DirectoriesNeverProcessed ==
    \A i \in Dirs :
        /\ Untouched(i)
        /\ bPc[i] \in {"idle", "start", "done"}
        /\ aIdx = i => aPc = "loop"

\* Strategy B ended on a listing of a directory and a file: the directory's
\* goroutine was spawned and has returned, the file was notified.
C13_Witness ==
    /\ task = "channel" /\ CollectorDone /\ Len(printed) = 1
    /\ \E i \in Dirs : bPc[i] = "done"

\* C14: an entry is written at most once, and only to the path of its own
\* name: a directory, an entry that fails to open and any entry under an
\* unknown filter are never written; an entry that opens and saves has been
\* written exactly once when the collector loop has ended; and a destination
\* file exists only as the one write of the entry of that name.
C14_OneWriteToOwnPath ==
    /\ \A i \in Idx :
          /\ writes[i] <= 1
          /\ fileList[i].isDir \/ InvalidFilter \/ fileList[i].outcome = "openErr"
                => writes[i] = 0
          /\ writes[i] = 1 => dst[fileList[i].name] = filter
          /\ CollectorDone /\ ~fileList[i].isDir /\ ~InvalidFilter
                /\ fileList[i].outcome = "ok" => writes[i] = 1
    /\ \A n \in Names :
          dst[n] # "none" => \E i \in Idx : fileList[i].name = n /\ writes[i] = 1

\* Strategy B ended: the first entry was written to its own path, the second
\* failed to open and its path was left alone.
C14_Witness ==
    /\ task = "channel" /\ CollectorDone /\ Len(fileList) = 2
    /\ writes[1] = 1 /\ dst[fileList[1].name] = filter
    /\ ~fileList[2].isDir /\ fileList[2].outcome = "openErr"
    /\ writes[2] = 0 /\ dst[fileList[2].name] = "none"

\* C15: no rollback: a destination file, once written, is left as it is by
\* every later step of the run, failures of other entries included.
C15_NoRollback ==
    [][\A n \in Names : dst[n] # "none" => dst'[n] = dst[n]]_vars

\* The run ended with the first entry's output in place although the second
\* entry failed to open after it had been written.
C15_Witness ==
    /\ task = "waitgrp" /\ CollectorDone /\ Len(fileList) = 2
    /\ writes[1] = 1 /\ dst[fileList[1].name] = filter
    /\ itemErrors[2] = 1 /\ fileList[2].outcome = "openErr"

----
\* A second invocation of the program

\* main has returned and the program is started again with the same flags,
\* on the same source directory with the same outcomes; the destination
\* directory is as the first invocation left it, everything else starts
\* afresh.
Rerun ==
    /\ ~panicked
    /\ run = 1
    /\ mainPc = "done"
    /\ run' = 2
    /\ dstFirst' = dst
    /\ mainPc' = "main"
    /\ chCap' = 0
    /\ chBuf' = <<>>
    /\ chClosed' = FALSE
    /\ wg' = 0
    /\ supPc' = "idle"
    /\ aPc' = "idle"
    /\ aIdx' = 0
    /\ bPc' = [i \in Idx |-> "idle"]
    /\ bI' = 0
    /\ attempts' = [i \in Idx |-> 0]
    /\ writes' = [i \in Idx |-> 0]
    /\ itemErrors' = [i \in Idx |-> 0]
    /\ invalidReports' = 0
    /\ enumErrors' = 0
    /\ sentCnt' = [i \in Idx |-> 0]
    /\ received' = <<>>
    /\ printed' = <<>>
    /\ closeCount' = 0
    /\ UNCHANGED <<inputs, dst, panicked>>

NextTwice == Next \/ Rerun

SpecTwice == Init /\ [][NextTwice]_vars

\* C16: idempotence: when the second invocation has ended, the destination
\* directory is exactly as the first invocation left it, under either
\* strategy and for every interleaving of both runs.
C16_SecondRunSameDestination ==
    run = 2 /\ CollectorDone => dst = dstFirst

\* The second invocation ended after writing an entry that the first one had
\* written already.
C16_Witness ==
    /\ run = 2 /\ CollectorDone
    /\ \E i \in Idx : writes[i] = 1 /\ dstFirst[fileList[i].name] = filter
                       /\ dst[fileList[i].name] = filter

----
\* C17: under Strategy B nothing orders the completions: a spawned closure
\* that has not returned can always take its next step, whatever the other
\* closures, the supervisor and the collector have done, and its send finds
\* the channel open; so the order of the names in the channel is the order
\* in which the scheduler lets the closures finish, any permutation of them.
C17_NoOrderImposed ==
    task = "channel" =>
        \A i \in Idx :
            bPc[i] \notin {"idle", "done"} => ~chClosed /\ ENABLED Worker(i)

\* The collector has received the second file's name while the closure of
\* the first file has not begun to process it: an order other than the
\* listing's.
C17_Witness ==
    /\ task = "channel" /\ Len(fileList) = 2 /\ NonDir = {1, 2}
    /\ received = <<fileList[2].name>>
    /\ bPc[1] = "start" /\ attempts[1] = 0

\* Entries whose processing has started and whose name is not sent yet
InProcess == Started \ Sent

\* C18: under Strategy A one worker goroutine is spawned for the whole batch
\* and at most one entry is in process at a time; under Strategy B the loop
\* spawns a closure for every listed entry and never waits to do so.
C18_OneWorkerVersusOnePerEntry ==
    /\ task = "waitgrp" =>
          /\ \A i \in Idx : bPc[i] = "idle"
          /\ WorkersSpawned = (IF mainPc \in {"main", "A_start"} THEN 0 ELSE 1)
          /\ Cardinality(InProcess) <= 1
    /\ task = "channel" =>
          /\ aPc = "idle"
          /\ mainPc = "B_loop" /\ bI <= Len(fileList) => ENABLED B_Spawn
          /\ mainPc \in {"spawnSup", "range", "print"} => WorkersSpawned = Len(fileList)
          /\ mainPc = "done" /\ readable => WorkersSpawned = Len(fileList)

\* Strategy B with the closures of both entries in the middle of their
\* processing at the same time.
C18_Witness ==
    /\ task = "channel" /\ Len(fileList) = 2
    /\ bPc[1] = "save" /\ bPc[2] = "save"
    /\ InProcess = {1, 2}

\* The processing attempt of entry i is over: the switch has been through,
\* and either the filter name was invalid, or the file has been written, or
\* its open or save error has been reported.
AttemptOver(i) ==
    /\ attempts[i] = 1
    /\ \/ InvalidFilter /\ invalidReports > 0
       \/ ~InvalidFilter /\ fileList[i].outcome = "ok" /\ writes[i] = 1
       \/ ~InvalidFilter /\ fileList[i].outcome # "ok" /\ itemErrors[i] = 1

\* The name of entry i has left its worker: sent, buffered, received or
\* printed.
Notified(i) ==
    \/ sentCnt[i] > 0
    \/ Count(chBuf, fileList[i].name) > 0
    \/ Count(received, fileList[i].name) > 0
    \/ Count(printed, fileList[i].name) > 0

\* C19: an entry's name is sent, received and printed only when its
\* processing attempt is over: its worker is past the save, with the file
\* written or the error reported.
C19_NotifiedOnlyAfterAttempt ==
    \A i \in Idx :
        Notified(i) =>
            /\ AttemptOver(i)
            /\ bPc[i] \in {"idle", "ret", "done"}
            /\ aIdx = i => aPc \in {"loop", "done"}

\* Strategy B: the first file is written and its name received while the
\* second file's save is still to come.
C19_Witness ==
    /\ task = "channel" /\ Len(fileList) = 2
    /\ Count(received, fileList[1].name) = 1 /\ writes[1] = 1
    /\ bPc[2] = "save" /\ ~Notified(2)

\* C20: when the collector loop has ended every spawned worker has returned
\* and the wait counter is at zero, no entry is in process, nothing is left
\* in the channel buffer, and every name sent has been received and printed.
C20_NothingLostAtExit ==
    CollectorDone =>
        /\ wg = 0
        /\ WorkersReturned
        /\ supPc \in {"idle", "done"}
        /\ InProcess = {}
        /\ chBuf = <<>>
        /\ Cardinality(Sent) = Len(received)
        /\ printed = received

\* Strategy B ended with both closures returned and both names delivered.
C20_Witness ==
    /\ CollectorDone /\ task = "channel" /\ Len(fileList) = 2
    /\ \A i \in Idx : bPc[i] = "done" /\ sentCnt[i] = 1
    /\ wg = 0 /\ supPc = "done" /\ chBuf = <<>> /\ Len(received) = 2

====
